---- MODULE Spec2Model ----
(***************************************************************************)
(* Authentication, lockout, session and password-reset core of the Sugo    *)
(* backend (super-admin controller, auth middleware, token helper).        *)
(*                                                                         *)
(* Every handler is an async function: it runs synchronously between two   *)
(* awaits and another request may run at each await.  A handler is         *)
(* therefore one action per store round trip (the store operation and the  *)
(* synchronous code that resumes after it), with its position in pc.       *)
(* Time is Date.now() in milliseconds; the synchronous code of one step    *)
(* reads one clock value.                                                  *)
(***************************************************************************)
EXTENDS Integers, Sequences, FiniteSets, TLC

VARIABLES
    now,          \* Date.now(), milliseconds
    ticks,        \* clock advances made so far (bounds the run)
    db,           \* the SuperAdmin collection: account id -> document
    req,          \* request slot -> the handler's locals, position and response
    nextTok,      \* the next value crypto.randomBytes(32) yields (idealised: never repeats)
    tokens,       \* bearer tokens issued by loginSuperAdmin
    resetIssued,  \* reset tokens minted by forgotPassword
    sessionHist,  \* account id -> every value stored as its sessionId, in order
    failRun,      \* account id -> failed password comparisons since its counters were last zeroed
    lockedAt,     \* account id -> clock value at the comparison that made failRun 3 (Null before)
    announced,    \* latest lock expiry reported to a caller with 423
    consumed,     \* reset tokens a successful resetPasswordWithToken has used
    users         \* the User collection: user id -> document

vars == <<now, ticks, db, req, nextTok, tokens, resetIssued, sessionHist,
          failRun, lockedAt, announced, consumed, users>>

----------------------------------------------------------------------------
(* Bounds of the model *)

MaxTicks == 2
MaxTokens == 2
MaxTicksConc == 1
MaxTokensReset == 3
MaxTicksReset == 1
MaxTicksGate == 1
MaxWarnings == 1
MaxFailAttempts == 3
MaxTicksTrip == 2

(* Program constants *)

LockThreshold == 3
LockMs == 30 * 60 * 1000
MinuteMs == 60000
ResetMs == 3600000
TokenTtlSec == 60 * 60
MaxTokenAgeSec == 24 * 60 * 60
ClockToleranceSec == 30
CookieMaxAgeMs == 60 * 60 * 1000
ExpiresInSec == 3600

(* Date.now() when the run starts: any instant well after the epoch *)
StartMs == 1000 * 1000 * 1000

(* null of a number- or string-valued field *)
Null == 0 - 1
NoId == "none"

(* Clock steps: one millisecond, and one millisecond short of the lock time *)
TickSteps == {1, LockMs - 1}

(* Clock steps around a bearer token's life: a second, the verifier's tolerance, the
   token's lifetime, the gate's age ceiling *)
TripSteps == {1000, ClockToleranceSec * 1000, TokenTtlSec * 1000, MaxTokenAgeSec * 1000}

(* Request slots: Spec uses slot 1 alone, SpecConc both *)
Procs == {1, 2}

(* Inputs: two passwords that pass the policy, an address with and without an account *)
Passwords == {"Passw0rd!", "Secr3t!x"}
Emails == {"a@x.com", "nobody@x.com"}

(* The account's address as registered and in another letter case *)
CaseEmails == {"a@x.com", "A@X.com"}

(* Tokens presented to authMiddleware: payloads signed by whoever holds the secret, with
   each claim present, absent (NoId, "none", 0) or off policy *)
StartSec == StartMs \div 1000
GateRoles == {"SUPERADMIN", "USER", "ADMIN", "none"}
GateIds == {"sa1", "u1", "ghost", NoId}
GateIats == {StartSec, StartSec - 25 * 60 * 60, 0}
GateExps == {StartSec + 60 * 60, StartSec, StartSec - 60 * 60, 0}
GateSessions == {Null, 7}

(* Inputs of registerSuperAdmin: a taken and a free address, a password that passes the
   policy and one that fails it, with or without a user name *)
RegEmails == {"a@x.com", "new@x.com"}
RegPasswords == {"Passw0rd!", "weak"}
RegNames == {"root", ""}

(* The addresses of two registered super-admins *)
TwoEmails == {"a@x.com", "b@x.com"}

(* Inputs of updateUserStatus *)
UserIds == {"u1", "ghost"}
ActionInputs == {"", "ban", "SUSPEND", "ACTIVATE", "WARN", "DELETE"}
Reasons == {"", "spam"}
Severities == {"", "high", "CRITICAL"}

(* Inputs of the concurrent password resets: two new passwords, both unlike the current one *)
NewPasswords == {"Secr3t!x", "N3wpass!z"}

----------------------------------------------------------------------------
(* Pure helpers *)

(* Math.ceil(a / b) for b > 0 *)
CeilDiv(a, b) == IF a <= 0 THEN 0 - ((0 - a) \div b) ELSE (a + b - 1) \div b

ToLowerCase(e) == IF e = "A@X.com" THEN "a@x.com" ELSE e

(* passwordRegex.test: 8 or more characters of the allowed set with a lower-case letter,
   an upper-case letter, a digit and one of @$!%*?& *)
PasswordRegexAny(pw) == TRUE
PasswordRegexTest(pw) == pw \in {"Passw0rd!", "Secr3t!x", "N3wpass!z"}

PolicyMessage ==
    "Password must be at least 8 characters long and include uppercase, lowercase, number, and special character"

(* bcrypt.hash / bcrypt.compare: the hash is irreversible and matches its own plaintext only *)
HashPassword(pw) == <<"bcrypt", pw>>
BcryptNeverMatches(pw, hash) == FALSE
BcryptCompare(pw, hash) == hash = HashPassword(pw)

IsLockedForever(lockUntil, t) == lockUntil # Null
IsLocked(lockUntil, t) == lockUntil # Null /\ lockUntil > t
LockExpired(lockUntil, t) == lockUntil # Null /\ lockUntil <= t
RemainingMinutesFloor(lockUntil, t) == (lockUntil - t) \div MinuteMs
RemainingMinutes(lockUntil, t) == CeilDiv(lockUntil - t, MinuteMs)
ReachedThresholdLate(n) == n > LockThreshold
ReachedThreshold(n) == n >= LockThreshold
LockTimeAtSeconds(t) == t + 30 * 1000
LockTimeAt(t) == t + LockMs

(* Store updates, each one atomic document update *)
ResetLockOnly(doc) == [doc EXCEPT !.lockUntil = Null]
ResetLockout(doc) == [doc EXCEPT !.loginAttempts = 0, !.lockUntil = Null]
IncFromSnapshot(doc, saAttempts) == [doc EXCEPT !.loginAttempts = saAttempts + 1]
(* { $inc: { loginAttempts: 1 } }: the store adds to the stored value, whatever the
   caller's snapshot of it (saAttempts) says *)
IncLoginAttempts(doc, saAttempts) == [doc EXCEPT !.loginAttempts = @ + 1]
(* findOneAndUpdate(..., { new: true }) resolves to the document after the update *)
Returned(before, after) == after
SetLockUntil(doc, t) == [doc EXCEPT !.lockUntil = t]
LoginSuccessKeepSession(doc, t, sid) ==
    [doc EXCEPT !.loginAttempts = 0, !.lockUntil = Null, !.lastLogin = t]
LoginSuccessUpdate(doc, t, sid) ==
    [doc EXCEPT !.loginAttempts = 0, !.lockUntil = Null, !.lastLogin = t, !.sessionId = sid]
LogoutKeepSession(doc, sid) == doc
LogoutUpdate(doc, sid) == [doc EXCEPT !.sessionId = sid]
ForgotKeepFirst(doc, tok, expiry) ==
    IF doc.passwordResetToken # Null THEN doc
    ELSE [doc EXCEPT !.passwordResetToken = tok, !.passwordResetExpires = expiry]
ForgotTokenOnly(doc, tok, expiry) == [doc EXCEPT !.passwordResetToken = tok]
ForgotUpdateEarly(doc, tok, expiry) ==
    [doc EXCEPT !.passwordResetToken = tok, !.passwordResetExpires = expiry - 1]
ForgotNoWrite(doc, tok, expiry) == doc
ForgotUpdate(doc, tok, expiry) ==
    [doc EXCEPT !.passwordResetToken = tok, !.passwordResetExpires = expiry]
ResetUpdateUnlock(doc, hash, sid) ==
    [doc EXCEPT !.password = hash, !.passwordResetToken = Null,
                !.passwordResetExpires = Null, !.sessionId = sid,
                !.loginAttempts = 0, !.lockUntil = Null]
ResetKeepToken(doc, hash, sid) == [doc EXCEPT !.password = hash, !.sessionId = sid]
ResetUpdate(doc, hash, sid) ==
    [doc EXCEPT !.password = hash, !.passwordResetToken = Null,
                !.passwordResetExpires = Null, !.sessionId = sid]

FindAnyAccount(e) == DOMAIN db
FindFirstAccount(e) == {CHOOSE a \in DOMAIN db : TRUE}
FindByEmailExact(e) == {a \in DOMAIN db : db[a].email = e}
(* SuperAdmin.findOne({ email }): the schema's lowercase setter is applied to the filter *)
FindByEmail(e) == {a \in DOMAIN db : db[a].email = ToLowerCase(e)}

FindByResetTokenInclusive(tok, t) ==
    {a \in DOMAIN db : db[a].passwordResetToken = tok /\ db[a].passwordResetExpires >= t}
FindByResetTokenAnyTime(tok, t) == {a \in DOMAIN db : db[a].passwordResetToken = tok}
(* SuperAdmin.findOne({ passwordResetToken, passwordResetExpires: { $gt: t } }) *)
FindByResetToken(tok, t) ==
    {a \in DOMAIN db : db[a].passwordResetToken = tok /\ db[a].passwordResetExpires > t}

NewAccount(e, pw) ==
    [email |-> ToLowerCase(e), password |-> HashPassword(pw), isActive |-> TRUE,
     lastLogin |-> Null, loginAttempts |-> 0, lockUntil |-> Null, sessionId |-> Null,
     passwordResetToken |-> Null, passwordResetExpires |-> Null]

(* The payload of a signed bearer token *)
NoToken == [role |-> "none", uid |-> NoId, email |-> "", sessionId |-> Null, iat |-> 0, exp |-> 0]
SignTokenTwoHours(doc, id, sid, t) ==
    [role |-> "SUPERADMIN", uid |-> id, email |-> doc.email, sessionId |-> sid,
     iat |-> t \div 1000, exp |-> (t \div 1000) + 2 * TokenTtlSec]
SignTokenLongLived(doc, id, sid, t) ==
    [role |-> "SUPERADMIN", uid |-> id, email |-> doc.email, sessionId |-> sid,
     iat |-> t \div 1000, exp |-> (t \div 1000) + MaxTokenAgeSec + TokenTtlSec]
SignToken(doc, id, sid, t) ==
    [role |-> "SUPERADMIN", uid |-> id, email |-> doc.email, sessionId |-> sid,
     iat |-> t \div 1000, exp |-> (t \div 1000) + TokenTtlSec]

(* What a request presents: a token and whether its signature verifies under JWT_SECRET *)
NoCred == [present |-> FALSE, tok |-> NoToken, signed |-> FALSE]
Cred(tk, sg) == [present |-> TRUE, tok |-> tk, signed |-> sg]
NoHeader == [scheme |-> "none", cred |-> NoCred]
Bearer(c) == [scheme |-> "Bearer", cred |-> c]

(* auth.middleware.js lines 39-46: the header when it starts with "Bearer ", else the cookie *)
ExtractCookieFirst(header, cookie) ==
    IF cookie.present THEN cookie
    ELSE IF header.scheme = "Bearer" THEN header.cred
    ELSE NoCred
ExtractToken(header, cookie) ==
    IF header.scheme = "Bearer" THEN header.cred
    ELSE IF cookie.present THEN cookie
    ELSE NoCred

(* jwt.verify of a correctly signed token: the exp check (with clockTolerance) applies
   when the token carries exp *)
JwtVerifyExpired(tk, t) == tk.exp # 0 /\ (t \div 1000) >= tk.exp + ClockToleranceSec
StructureIgnoresId(tk) == tk.role = "none" \/ tk.iat = 0 \/ tk.exp = 0
StructureMissing(tk) == tk.uid = NoId \/ tk.role = "none" \/ tk.iat = 0 \/ tk.exp = 0
GateExpiredAtIat(tk, t) == tk.iat * 1000 < t
GateExpired(tk, t) == tk.exp * 1000 < t
GateNeverTooOld(tk, t) == FALSE
GateTooOld(tk, t) == tk.iat * 1000 < t - MaxTokenAgeSec * 1000

(* The switch on decodedToken.role: the collection to query *)
UserModelDefaultUser(role) == IF role = "SUPERADMIN" THEN "SuperAdmin" ELSE "User"
UserModel(role) ==
    IF role = "SUPERADMIN" THEN "SuperAdmin"
    ELSE IF role = "USER" THEN "User"
    ELSE "none"

IsDeactivatedByStatus(doc) ==
    \/ "isActive" \in DOMAIN doc /\ doc.isActive = FALSE
    \/ "accountStatus" \in DOMAIN doc /\ doc.accountStatus # "ACTIVE"
(* user.isActive === false: a document without the field is not deactivated *)
IsDeactivated(doc) == "isActive" \in DOMAIN doc /\ doc.isActive = FALSE

(* updateUserStatus line 337 *)
RoleAllowedAny(user) == user.role # "none"
RoleAllowed(user) == user.role = "SUPERADMIN"

(* A User document as far as this code reads and writes it *)
NewUser(e) == [email |-> e, accountStatus |-> "ACTIVE", warnings |-> 0]
StatusKept(action) == "ACTIVE"
StatusFor(action) ==
    IF action = "BAN" THEN "BANNED"
    ELSE IF action = "SUSPEND" THEN "SUSPENDED"
    ELSE "ACTIVE"
ToUpperCase(a) == IF a = "ban" THEN "BAN" ELSE IF a = "high" THEN "HIGH" ELSE a
(* The message of a status change, lines 375-389 *)
StatusMessage(action) ==
    IF action = "BAN" THEN "User has been banned successfully."
    ELSE IF action = "SUSPEND" THEN "User has been suspended successfully."
    ELSE "User has been reactivated successfully."
(* severity?.toUpperCase() || "LOW", validated on save against the schema's enum *)
WarningSeverity(severity) == IF severity = "" THEN "LOW" ELSE ToUpperCase(severity)
SeverityEnum == {"LOW", "MEDIUM", "HIGH"}
ValidActions == {"BAN", "SUSPEND", "ACTIVATE", "WARN"}

NoUser == [id |-> NoId, role |-> "none", email |-> "", sessionId |-> Null]

(* A request slot with nothing in it: the handler's locals, its response, and what is
   remembered of the request after it returned *)
Blank ==
    [pc |-> "idle", kind |-> "none",
     email |-> "", password |-> "", resetToken |-> Null, jwt |-> NoToken,
     saId |-> NoId, saAttempts |-> Null, saLockUntil |-> Null, saPassword |-> <<>>,
     updated |-> Null, lockTime |-> Null, sessionId |-> Null, lastLogin |-> Null,
     expiry |-> Null, user |-> NoUser,
     header |-> NoHeader, cookie |-> NoCred, userId |-> NoId, action |-> "",
     severity |-> "",
     userName |-> "", picture |-> FALSE, uploadedFileUrl |-> Null,
     status |-> 0, message |-> "", attempts |-> Null, remaining |-> Null, token |-> NoToken,
     cookieMaxAge |-> Null, expiresIn |-> Null,
     acct |-> NoId, path |-> "", compared |-> FALSE, pwOk |-> FALSE, sawExpired |-> FALSE,
     lockSeen |-> Null, observed |-> Null, sameRun |-> FALSE, usedToken |-> FALSE,
     forToken |-> Null, forPassword |-> "", asRole |-> "none", asUid |-> NoId,
     imageUp |-> FALSE, imageDeleted |-> FALSE, wrote |-> FALSE]

(* The handler returns: its locals are gone, the response and the record of the request stay *)
Respond(r, st, msg) ==
    [Blank EXCEPT !.pc = "done", !.kind = r.kind, !.status = st, !.message = msg,
                  !.attempts = r.attempts, !.remaining = r.remaining, !.token = r.token,
                  !.cookieMaxAge = r.cookieMaxAge, !.expiresIn = r.expiresIn,
                  !.acct = r.acct, !.path = r.path, !.compared = r.compared,
                  !.pwOk = r.pwOk, !.sawExpired = r.sawExpired, !.lockSeen = r.lockSeen,
                  !.observed = r.observed, !.sameRun = r.sameRun, !.usedToken = r.usedToken,
                  !.forToken = r.forToken, !.forPassword = r.forPassword,
                  !.asRole = r.asRole, !.asUid = r.asUid,
                  !.imageUp = r.imageUp, !.imageDeleted = r.imageDeleted, !.wrote = r.wrote]

(* A write that zeroes an account's counters ends the run of increments every other
   request's observed value belongs to *)
EndRun(rq, p, a, mine) ==
    [q \in Procs |->
       IF q = p THEN mine
       ELSE IF rq[q].acct = a /\ rq[q].sameRun THEN [rq[q] EXCEPT !.sameRun = FALSE]
       ELSE rq[q]]

Free(p) == req[p].pc \in {"idle", "done"}

----------------------------------------------------------------------------
(* The clock *)

Advance(steps, bound) ==
    /\ ticks < bound
    /\ \E d \in steps : now' = now + d
    /\ ticks' = ticks + 1
    /\ UNCHANGED <<users, db, req, nextTok, tokens, resetIssued, sessionHist,
                   failRun, lockedAt, announced, consumed>>

Tick == Advance(TickSteps, MaxTicks)
TickConc == Advance({LockMs}, MaxTicksConc)
TickReset == Advance({ResetMs}, MaxTicksReset)
TickGate == Advance({1, ClockToleranceSec * 1000}, MaxTicksGate)
TickTrip == Advance(TripSteps, MaxTicksTrip)

----------------------------------------------------------------------------
(* registerSuperAdmin *)

(* The unique index on email: an insert of an address already stored fails with 11000 *)
NoUniqueIndex(e) == FALSE
DuplicateKey(e) == \E a \in DOMAIN db : db[a].email = e

(* The _id of the document a request slot inserts *)
NewId(p) == IF p = 1 THEN "sa2" ELSE "sa3"

(* The catch block, lines 112-118: deleteFromCloudinary when an image was uploaded *)
Compensate(r) == [r EXCEPT !.imageDeleted = (r.uploadedFileUrl # Null)]

(* lines 57-70: read the body, test the password, issue findOne (a missing email throws) *)
RegisterStartWith(p, emails, passwords, names, pictures) ==
    /\ Free(p)
    /\ \E e \in emails, pw \in passwords, n \in names, pic \in pictures :
         LET r == [Blank EXCEPT !.kind = "register", !.email = e, !.password = pw,
                                !.userName = n, !.picture = pic]
         IN req' = [req EXCEPT ![p] =
                      IF ~PasswordRegexTest(pw)
                      THEN Respond([r EXCEPT !.path = "policy"], 400, PolicyMessage)
                      ELSE IF e = ""
                      THEN Respond([Compensate(r) EXCEPT !.path = "threw"], 500, "Server Error")
                      ELSE [r EXCEPT !.pc = "reglookup"]]
    /\ UNCHANGED <<users, now, ticks, db, nextTok, tokens, resetIssued, sessionHist,
                   failRun, lockedAt, announced, consumed>>

(* Signup as the sequential caller sees it: the registered address, any password *)
RegisterStart(p) == RegisterStartWith(p, {"a@x.com"}, RegPasswords, {"root"}, {FALSE})

(* lines 67-89: findOne resolves; 409 on a match, else upload or hash *)
RegisterLookup(p) ==
    /\ req[p].pc = "reglookup"
    /\ LET r == req[p]
       IN req' = [req EXCEPT ![p] =
            IF FindByEmail(ToLowerCase(r.email)) # {}
            THEN Respond([r EXCEPT !.path = "exists"], 409,
                         "SuperAdmin with this email already exists")
            ELSE IF r.picture THEN [r EXCEPT !.pc = "regupload"]
            ELSE [r EXCEPT !.pc = "reghash"]]
    /\ UNCHANGED <<users, now, ticks, db, nextTok, tokens, resetIssued, sessionHist,
                   failRun, lockedAt, announced, consumed>>

(* lines 81-89: uploadToCloudinary resolves with the url or throws *)
RegisterUpload(p) ==
    /\ req[p].pc = "regupload"
    /\ \E uploaded \in BOOLEAN :
         LET r == req[p]
         IN req' = [req EXCEPT ![p] =
              IF uploaded
              THEN [r EXCEPT !.pc = "reghash", !.uploadedFileUrl = p, !.imageUp = TRUE]
              ELSE Respond([Compensate(r) EXCEPT !.path = "threw"], 500, "Server Error")]
    /\ UNCHANGED <<users, now, ticks, db, nextTok, tokens, resetIssued, sessionHist,
                   failRun, lockedAt, announced, consumed>>

(* lines 89-105: hashPassword resolves, the document is built and save() issued *)
RegisterHash(p) ==
    /\ req[p].pc = "reghash"
    /\ req' = [req EXCEPT ![p] = [@ EXCEPT !.pc = "regsave",
                                           !.saPassword = HashPassword(req[p].password)]]
    /\ UNCHANGED <<users, now, ticks, db, nextTok, tokens, resetIssued, sessionHist,
                   failRun, lockedAt, announced, consumed>>

(* lines 105-131: save() inserts the document, fails validation (userName required) or
   fails on the unique index; the catch block compensates and answers *)
RegisterSave(p) ==
    /\ req[p].pc = "regsave"
    /\ LET r == req[p]
           e == ToLowerCase(r.email)
           id == NewId(p)
       IN IF r.userName = ""
          THEN /\ req' = [req EXCEPT ![p] =
                            Respond([Compensate(r) EXCEPT !.path = "threw"], 500, "Server Error")]
               /\ UNCHANGED <<db, sessionHist, failRun, lockedAt>>
          ELSE IF DuplicateKey(e)
          THEN /\ req' = [req EXCEPT ![p] =
                            Respond([Compensate(r) EXCEPT !.path = "duplicate"], 409,
                                    "SuperAdmin with this email already exists")]
               /\ UNCHANGED <<db, sessionHist, failRun, lockedAt>>
          ELSE /\ id \notin DOMAIN db
               /\ db' = [a \in DOMAIN db \cup {id} |->
                           IF a = id THEN [NewAccount(e, r.password) EXCEPT !.password = r.saPassword]
                           ELSE db[a]]
               /\ sessionHist' = [a \in DOMAIN db \cup {id} |-> IF a = id THEN <<>> ELSE sessionHist[a]]
               /\ failRun' = [a \in DOMAIN db \cup {id} |-> IF a = id THEN 0 ELSE failRun[a]]
               /\ lockedAt' = [a \in DOMAIN db \cup {id} |-> IF a = id THEN Null ELSE lockedAt[a]]
               /\ req' = [req EXCEPT ![p] =
                            Respond([r EXCEPT !.path = "created", !.acct = id, !.wrote = TRUE], 201,
                                    "SuperAdmin created successfully")]
    /\ UNCHANGED <<users, now, ticks, nextTok, tokens, resetIssued, announced, consumed>>

----------------------------------------------------------------------------
(* loginSuperAdmin *)

(* lines 142-151: read the body, require both fields, issue findOne *)
LoginStartWith(p, emails, passwords) ==
    /\ Free(p)
    /\ \E e \in emails, pw \in passwords :
         LET r == [Blank EXCEPT !.kind = "login", !.email = e, !.password = pw,
                                !.lockSeen = IF now < announced THEN announced ELSE Null]
         IN req' = [req EXCEPT ![p] =
                      IF e = "" \/ pw = ""
                      THEN Respond(r, 400, "Email and password are required")
                      ELSE [r EXCEPT !.pc = "lookup"]]
    /\ UNCHANGED <<users, now, ticks, db, nextTok, tokens, resetIssued, sessionHist,
                   failRun, lockedAt, announced, consumed>>

LoginStart(p) == LoginStartWith(p, Emails \cup {""}, Passwords \cup {""})

(* lines 151-174: findOne resolves; unknown account, lock check, expired-lock branch *)
LoginLookup(p) ==
    /\ req[p].pc = "lookup"
    /\ LET found == FindByEmail(req[p].email)
           r == req[p]
       IN IF found = {}
          THEN /\ req' = [req EXCEPT ![p] =
                            Respond([r EXCEPT !.path = "unknown"], 401, "Invalid credentials")]
               /\ UNCHANGED announced
          ELSE \E a \in found :
                 LET s == [r EXCEPT !.saId = a, !.acct = a,
                                    !.saAttempts = db[a].loginAttempts,
                                    !.saLockUntil = db[a].lockUntil,
                                    !.saPassword = db[a].password,
                                    !.pwOk = (db[a].password = HashPassword(r.password))]
                 IN IF IsLocked(db[a].lockUntil, now)
                    THEN /\ req' = [req EXCEPT ![p] =
                                      Respond([s EXCEPT !.path = "locked",
                                                        !.remaining = RemainingMinutes(db[a].lockUntil, now)],
                                              423, "Account locked. Try again in N minutes.")]
                         /\ announced' = IF db[a].lockUntil > announced
                                         THEN db[a].lockUntil ELSE announced
                    ELSE /\ req' = [req EXCEPT ![p] =
                                      IF LockExpired(db[a].lockUntil, now)
                                      THEN [s EXCEPT !.pc = "clear", !.sawExpired = TRUE]
                                      ELSE [s EXCEPT !.pc = "compare"]]
                         /\ UNCHANGED announced
    /\ UNCHANGED <<users, now, ticks, db, nextTok, tokens, resetIssued, sessionHist,
                   failRun, lockedAt, consumed>>

(* lines 168-174: updateOne zeroes the counters of an expired lock *)
LoginClear(p) ==
    /\ req[p].pc = "clear"
    /\ LET a == req[p].saId
       IN /\ db' = [db EXCEPT ![a] = ResetLockout(@)]
          /\ failRun' = [failRun EXCEPT ![a] = 0]
          /\ lockedAt' = [lockedAt EXCEPT ![a] = Null]
          /\ req' = EndRun(req, p, a, [req[p] EXCEPT !.pc = "compare", !.saAttempts = 0, !.wrote = TRUE,
                                                  !.saLockUntil = Null])
    /\ UNCHANGED <<users, now, ticks, nextTok, tokens, resetIssued, sessionHist,
                   announced, consumed>>

(* lines 176-178, 205: bcrypt.compare resolves; a match draws the new session id *)
LoginCompare(p) ==
    /\ req[p].pc = "compare"
    /\ LET r == [req[p] EXCEPT !.compared = TRUE]
       IN IF BcryptCompare(r.password, r.saPassword)
          THEN /\ nextTok <= MaxTokens
               /\ req' = [req EXCEPT ![p] =
                            [r EXCEPT !.pc = "succ", !.sessionId = nextTok, !.lastLogin = now]]
               /\ nextTok' = nextTok + 1
          ELSE /\ req' = [req EXCEPT ![p] = [r EXCEPT !.pc = "inc"]]
               /\ UNCHANGED nextTok
    /\ UNCHANGED <<users, now, ticks, db, tokens, resetIssued, sessionHist,
                   failRun, lockedAt, announced, consumed>>

(* lines 179-186, 198-202: findOneAndUpdate $inc returns the updated document *)
LoginInc(p) ==
    /\ req[p].pc = "inc"
    /\ LET a == req[p].saId
           doc == IncLoginAttempts(db[a], req[p].saAttempts)
           r == [req[p] EXCEPT !.updated = Returned(db[a], doc).loginAttempts,
                               !.path = "fail", !.wrote = TRUE,
                               !.observed = doc.loginAttempts, !.sameRun = TRUE]
       IN /\ db' = [db EXCEPT ![a] = doc]
          /\ failRun' = [failRun EXCEPT ![a] = @ + 1]
          /\ lockedAt' = [lockedAt EXCEPT ![a] = IF failRun[a] + 1 = 3 THEN now ELSE @]
          /\ req' = [req EXCEPT ![p] =
                       IF ReachedThreshold(r.updated)
                       THEN [r EXCEPT !.pc = "lock", !.lockTime = LockTimeAt(now)]
                       ELSE Respond([r EXCEPT !.attempts = r.updated], 401, "Invalid credentials")]
    /\ UNCHANGED <<users, now, ticks, nextTok, tokens, resetIssued, sessionHist,
                   announced, consumed>>

(* lines 187-196: updateOne stores lockUntil, then the 423 response *)
LoginLock(p) ==
    /\ req[p].pc = "lock"
    /\ LET a == req[p].saId
       IN /\ db' = [db EXCEPT ![a] = SetLockUntil(@, req[p].lockTime)]
          /\ announced' = IF req[p].lockTime > announced THEN req[p].lockTime ELSE announced
          /\ req' = [req EXCEPT ![p] =
                       Respond([@ EXCEPT !.wrote = TRUE], 423, "Too many failed login attempts. Account locked for 30 minutes.")]
    /\ UNCHANGED <<users, now, ticks, nextTok, tokens, resetIssued, sessionHist,
                   failRun, lockedAt, consumed>>

(* lines 206-256: findOneAndUpdate stores the session, the token is signed and returned *)
LoginSucc(p) ==
    /\ req[p].pc = "succ"
    /\ LET a == req[p].saId
           doc == LoginSuccessUpdate(db[a], req[p].lastLogin, req[p].sessionId)
           tk == SignToken(doc, a, req[p].sessionId, now)
       IN /\ db' = [db EXCEPT ![a] = doc]
          /\ sessionHist' = [sessionHist EXCEPT ![a] = Append(@, db'[a].sessionId)]
          /\ failRun' = [failRun EXCEPT ![a] = 0]
          /\ lockedAt' = [lockedAt EXCEPT ![a] = Null]
          /\ tokens' = tokens \cup {tk}
          /\ req' = EndRun(req, p, a,
                           Respond([req[p] EXCEPT !.token = tk, !.path = "success", !.wrote = TRUE,
                                                  !.cookieMaxAge = CookieMaxAgeMs,
                                                  !.expiresIn = ExpiresInSec],
                                   200, "Super Admin login successfully!"))
    /\ UNCHANGED <<users, now, ticks, nextTok, resetIssued, announced, consumed>>

(* lines 257-262: a store operation (findOne, updateOne, findOneAndUpdate) rejects, the
   operation is not applied and the catch block answers; failures stop once a counter
   has passed MaxFailAttempts, which keeps loginAttempts bounded *)
LoginStoreFails(p) ==
    /\ req[p].kind = "login"
    /\ \A a \in DOMAIN db : db[a].loginAttempts <= MaxFailAttempts
    /\ req[p].pc \in {"lookup", "clear", "inc", "lock", "succ"}
    /\ req' = [req EXCEPT ![p] =
                 Respond([@ EXCEPT !.path = "storefail"], 500, "Error logging in")]
    /\ UNCHANGED <<users, now, ticks, db, nextTok, tokens, resetIssued, sessionHist,
                   failRun, lockedAt, announced, consumed>>

----------------------------------------------------------------------------
(* authMiddleware, in front of logoutSuperAdmin *)

(* The client presents a bearer token it was issued *)
LogoutStart(p) ==
    /\ Free(p)
    /\ \E tk \in tokens :
         req' = [req EXCEPT ![p] = [Blank EXCEPT !.kind = "logout", !.pc = "gate", !.jwt = tk,
                                                 !.header = Bearer(Cred(tk, TRUE))]]
    /\ UNCHANGED <<users, now, ticks, db, nextTok, tokens, resetIssued, sessionHist,
                   failRun, lockedAt, announced, consumed>>

(* auth.middleware.js lines 39-104: extraction, verify, structure, expiry, age, role *)
AuthGate(p) ==
    /\ req[p].pc = "gate"
    /\ LET r == req[p]
           c == ExtractToken(r.header, r.cookie)
           tk == c.tok
       IN req' = [req EXCEPT ![p] =
            IF ~c.present THEN Respond(r, 401, "Unauthorized Access, Token is missing")
            ELSE IF ~c.signed THEN Respond(r, 401, "Invalid token")
            ELSE IF JwtVerifyExpired(tk, now) THEN Respond(r, 401, "Token expired")
            ELSE IF StructureMissing(tk) THEN Respond(r, 401, "Invalid Token Structure")
            ELSE IF GateExpired(tk, now) THEN Respond(r, 401, "Token has expired")
            ELSE IF GateTooOld(tk, now) THEN Respond(r, 401, "Token is too old")
            ELSE IF UserModel(tk.role) = "none" THEN Respond(r, 401, "Invalid user role")
            ELSE [r EXCEPT !.pc = "glookup", !.jwt = tk, !.asRole = tk.role, !.asUid = tk.uid]]
    /\ UNCHANGED <<users, now, ticks, db, nextTok, tokens, resetIssued, sessionHist,
                   failRun, lockedAt, announced, consumed>>

(* auth.middleware.js lines 104-131: findById in the role's collection, isActive, next() *)
AuthGateLookup(p) ==
    /\ req[p].pc = "glookup"
    /\ LET r == req[p]
           tk == r.jwt
           docs == IF UserModel(tk.role) = "SuperAdmin" THEN db ELSE users
       IN req' = [req EXCEPT ![p] =
            IF tk.uid \notin DOMAIN docs THEN Respond(r, 404, "User Not Found")
            ELSE IF IsDeactivated(docs[tk.uid]) THEN Respond(r, 401, "Account is deactivated")
            ELSE [r EXCEPT !.pc = "handler", !.acct = tk.uid,
                           !.user = [id |-> tk.uid, role |-> tk.role,
                                     email |-> docs[tk.uid].email, sessionId |-> tk.sessionId]]]
    /\ UNCHANGED <<users, now, ticks, db, nextTok, tokens, resetIssued, sessionHist,
                   failRun, lockedAt, announced, consumed>>

(* controller lines 303-319: findByIdAndUpdate stores a new session id *)
LogoutSuperAdmin(p) ==
    /\ req[p].pc = "handler"
    /\ req[p].kind = "logout"
    /\ nextTok <= MaxTokens
    /\ LET a == req[p].user.id
       IN /\ db' = [db EXCEPT ![a] = LogoutUpdate(@, nextTok)]
          /\ sessionHist' = [sessionHist EXCEPT ![a] = Append(@, db'[a].sessionId)]
          /\ nextTok' = nextTok + 1
          /\ req' = [req EXCEPT ![p] =
                       Respond([@ EXCEPT !.path = "logout", !.wrote = TRUE], 201, "Logout Successfully!")]
    /\ UNCHANGED <<users, now, ticks, tokens, resetIssued, failRun, lockedAt, announced, consumed>>

----------------------------------------------------------------------------
(* updateUserStatus, behind authMiddleware *)

GateTokens ==
    {[role |-> r, uid |-> u, email |-> "", sessionId |-> sid, iat |-> i, exp |-> x] :
        r \in GateRoles, u \in GateIds, sid \in GateSessions, i \in GateIats, x \in GateExps}
GoodToken ==
    [role |-> "SUPERADMIN", uid |-> "sa1", email |-> "", sessionId |-> 7,
     iat |-> StartSec, exp |-> StartSec + 60 * 60]
Headers ==
    {NoHeader, Bearer(NoCred), [scheme |-> "Basic", cred |-> Cred(GoodToken, TRUE)]}
    \cup {Bearer(Cred(tk, sg)) : tk \in GateTokens, sg \in BOOLEAN}
Cookies == {NoCred, Cred(GoodToken, TRUE), Cred(GoodToken, FALSE)}

(* A request to PATCH /user/update-user-status/:userId arrives *)
GateStart(p) ==
    /\ Free(p)
    /\ \E h \in Headers, c \in Cookies :
         req' = [req EXCEPT ![p] = [Blank EXCEPT !.kind = "status", !.pc = "gate",
                                                 !.header = h, !.cookie = c]]
    /\ UNCHANGED <<users, now, ticks, db, nextTok, tokens, resetIssued, sessionHist,
                   failRun, lockedAt, announced, consumed>>

(* controller lines 337-364: role check, action validation, issue User.findById *)
UpdateStatusCheck(p) ==
    /\ req[p].pc = "handler"
    /\ req[p].kind = "status"
    /\ \E userId \in UserIds, action \in ActionInputs :
         LET r == req[p]
         IN req' = [req EXCEPT ![p] =
              IF ~RoleAllowed(r.user)
              THEN Respond([r EXCEPT !.path = "forbidden"], 403,
                           "Only super admin can update user status")
              ELSE IF action = ""
              THEN Respond([r EXCEPT !.path = "noaction"], 400,
                           "Action field is required (BAN, SUSPEND, ACTIVATE, WARN)")
              ELSE IF ToUpperCase(action) \notin ValidActions
              THEN Respond([r EXCEPT !.path = "badaction"], 400,
                           "Invalid action. Valid actions are: BAN, SUSPEND, ACTIVATE, WARN")
              ELSE [r EXCEPT !.pc = "ulookup", !.userId = userId,
                             !.action = ToUpperCase(action)]]
    /\ UNCHANGED <<users, now, ticks, db, nextTok, tokens, resetIssued, sessionHist,
                   failRun, lockedAt, announced, consumed>>

(* lines 364-408, 423: findById resolves; not found, the new status, or the warning *)
UpdateStatusLookup(p) ==
    /\ req[p].pc = "ulookup"
    /\ LET r == req[p]
           u == r.userId
       IN IF u \notin DOMAIN users
          THEN req' = [req EXCEPT ![p] = Respond([r EXCEPT !.path = "nouser"], 404, "User not found")]
          ELSE IF r.action = "WARN"
          THEN \E reason \in Reasons, severity \in Severities :
                 IF reason = ""
                 THEN req' = [req EXCEPT ![p] =
                                Respond([r EXCEPT !.path = "noreason"], 400,
                                        "Reason is required when issuing a warning.")]
                 ELSE /\ users[u].warnings < MaxWarnings
                      /\ req' = [req EXCEPT ![p] =
                                   [r EXCEPT !.pc = "usave",
                                             !.severity = WarningSeverity(severity)]]
          ELSE req' = [req EXCEPT ![p] = [r EXCEPT !.pc = "usave"]]
    /\ UNCHANGED <<users, now, ticks, db, nextTok, tokens, resetIssued, sessionHist,
                   failRun, lockedAt, announced, consumed>>

(* lines 408-420, 424-444: save() validates and writes the pushed warning or the account
   status; a warning whose severity is outside the enum fails validation *)
UpdateStatusSave(p) ==
    /\ req[p].pc = "usave"
    /\ LET r == req[p]
           u == r.userId
       IN IF r.action = "WARN" /\ r.severity \notin SeverityEnum
          THEN /\ users' = users
               /\ req' = [req EXCEPT ![p] =
                            Respond([r EXCEPT !.path = "threw"], 500,
                                    "Server error while updating user account status")]
          ELSE IF r.action = "WARN"
          THEN /\ users' = [users EXCEPT ![u].warnings = @ + 1]
               /\ req' = [req EXCEPT ![p] =
                            Respond([r EXCEPT !.path = "warned", !.wrote = TRUE], 200, "Warning issued successfully.")]
          ELSE /\ users' = [users EXCEPT ![u].accountStatus = StatusFor(r.action)]
               /\ req' = [req EXCEPT ![p] =
                            Respond([r EXCEPT !.path = "status", !.wrote = TRUE], 200,
                                    StatusMessage(r.action))]
    /\ UNCHANGED <<now, ticks, db, nextTok, tokens, resetIssued, sessionHist,
                   failRun, lockedAt, announced, consumed>>

----------------------------------------------------------------------------
(* forgotPassword *)

(* lines 456-466: require the email, issue findOne on the lower-cased address *)
ForgotStartWith(p, emails) ==
    /\ Free(p)
    /\ \E e \in emails :
         LET r == [Blank EXCEPT !.kind = "forgot", !.email = e]
         IN req' = [req EXCEPT ![p] =
                      IF e = "" THEN Respond(r, 400, "Email is required")
                      ELSE [r EXCEPT !.pc = "flookup"]]
    /\ UNCHANGED <<users, now, ticks, db, nextTok, tokens, resetIssued, sessionHist,
                   failRun, lockedAt, announced, consumed>>

ForgotStart(p) == ForgotStartWith(p, Emails \cup {""})

(* lines 466-483: findOne resolves; a match draws the token and its expiry *)
ForgotLookupUpTo(p, maxTok) ==
    /\ req[p].pc = "flookup"
    /\ LET found == FindByEmail(ToLowerCase(req[p].email))
           r == req[p]
       IN IF found = {}
          THEN /\ req' = [req EXCEPT ![p] =
                            Respond([r EXCEPT !.path = "unknown"], 200,
                                    "If an account with that email exists, a password reset link has been sent")]
               /\ UNCHANGED nextTok
          ELSE /\ nextTok <= maxTok
               /\ \E a \in found :
                    req' = [req EXCEPT ![p] =
                              [r EXCEPT !.pc = "fsave", !.saId = a, !.acct = a,
                                        !.resetToken = nextTok, !.expiry = now + ResetMs]]
               /\ nextTok' = nextTok + 1
    /\ UNCHANGED <<users, now, ticks, db, tokens, resetIssued, sessionHist,
                   failRun, lockedAt, announced, consumed>>

ForgotLookup(p) == ForgotLookupUpTo(p, MaxTokens)

(* line 484: save() writes the two modified paths *)
ForgotSave(p) ==
    /\ req[p].pc = "fsave"
    /\ LET a == req[p].saId
       IN db' = [db EXCEPT ![a] = ForgotUpdate(@, req[p].resetToken, req[p].expiry)]
    /\ resetIssued' = resetIssued \cup {req[p].resetToken}
    /\ req' = [req EXCEPT ![p] = [@ EXCEPT !.pc = "fmail", !.wrote = TRUE]]
    /\ UNCHANGED <<users, now, ticks, nextTok, tokens, sessionHist,
                   failRun, lockedAt, announced, consumed>>

(* lines 489-507: sendPasswordResetEmail resolves true or false *)
ForgotMail(p) ==
    /\ req[p].pc = "fmail"
    /\ \E emailSent \in BOOLEAN :
         req' = [req EXCEPT ![p] =
                   IF emailSent
                   THEN Respond([@ EXCEPT !.path = "sent"], 200,
                                "Link sent successfully! Please check your email")
                   ELSE Respond([@ EXCEPT !.path = "unsent"], 500,
                                "Failed to send password reset email")]
    /\ UNCHANGED <<users, now, ticks, db, nextTok, tokens, resetIssued, sessionHist,
                   failRun, lockedAt, announced, consumed>>

----------------------------------------------------------------------------
(* resetPasswordWithToken and verifyResetToken *)

(* A caller presents a token from a reset mail, or one that was never issued (0) *)
TokenInputs == resetIssued \cup {0}

(* lines 527-548: require token and password, test the password, issue findOne *)
ResetStartFrom(p, toks, passwords) ==
    /\ Free(p)
    /\ \E tok \in toks, pw \in passwords :
         LET r == [Blank EXCEPT !.kind = "reset", !.resetToken = tok,
                                !.password = pw, !.usedToken = (tok \in consumed),
                                !.forToken = tok, !.forPassword = pw]
         IN req' = [req EXCEPT ![p] =
                      IF tok = Null \/ pw = ""
                      THEN Respond([r EXCEPT !.path = "missing"], 400,
                                   "Token and new password are required")
                      ELSE IF ~PasswordRegexTest(pw)
                      THEN Respond([r EXCEPT !.path = "policy"], 400, PolicyMessage)
                      ELSE [r EXCEPT !.pc = "rlookup"]]
    /\ UNCHANGED <<users, now, ticks, db, nextTok, tokens, resetIssued, sessionHist,
                   failRun, lockedAt, announced, consumed>>

ResetStartWith(p, passwords) == ResetStartFrom(p, TokenInputs, passwords)

ResetStart(p) == ResetStartFrom(p, TokenInputs \cup {Null}, Passwords \cup {"", "weak"})

(* lines 545-568: findOne resolves, then bcrypt.compare against the current hash *)
ResetLookupUpTo(p, maxTok) ==
    /\ req[p].pc = "rlookup"
    /\ req[p].kind = "reset"
    /\ LET found == FindByResetToken(req[p].resetToken, now)
           r == req[p]
       IN IF found = {}
          THEN /\ req' = [req EXCEPT ![p] =
                            Respond([r EXCEPT !.path = "invalid"], 400,
                                    "Invalid or expired reset token")]
               /\ UNCHANGED nextTok
          ELSE \E a \in found :
                 IF BcryptCompare(r.password, db[a].password)
                 THEN /\ req' = [req EXCEPT ![p] =
                                   Respond([r EXCEPT !.acct = a, !.path = "same"], 400,
                                           "New password cannot be the same as the current password")]
                      /\ UNCHANGED nextTok
                 ELSE /\ nextTok <= maxTok
                      /\ req' = [req EXCEPT ![p] =
                                   [r EXCEPT !.pc = "rsave", !.saId = a, !.acct = a,
                                             !.saPassword = HashPassword(r.password),
                                             !.sessionId = nextTok]]
                      /\ nextTok' = nextTok + 1
    /\ UNCHANGED <<users, now, ticks, db, tokens, resetIssued, sessionHist,
                   failRun, lockedAt, announced, consumed>>

ResetLookup(p) == ResetLookupUpTo(p, MaxTokens)

(* lines 570-581: save() writes the hash, clears the token fields, rotates the session *)
ResetSave(p) ==
    /\ req[p].pc = "rsave"
    /\ LET a == req[p].saId
       IN /\ db' = [db EXCEPT ![a] = ResetUpdate(@, req[p].saPassword, req[p].sessionId)]
          /\ sessionHist' = [sessionHist EXCEPT ![a] = Append(@, db'[a].sessionId)]
    /\ consumed' = consumed \cup {req[p].resetToken}
    /\ req' = [req EXCEPT ![p] =
                 Respond([@ EXCEPT !.path = "reset", !.wrote = TRUE], 200,
                         "Password reset successfully")]
    /\ UNCHANGED <<users, now, ticks, nextTok, tokens, resetIssued, failRun, lockedAt, announced>>

(* lines 598-610: require the token, issue findOne *)
VerifyStart(p) ==
    /\ Free(p)
    /\ \E tok \in TokenInputs \cup {Null} :
         LET r == [Blank EXCEPT !.kind = "verify", !.resetToken = tok,
                                !.usedToken = (tok \in consumed), !.forToken = tok]
         IN req' = [req EXCEPT ![p] =
                      IF tok = Null
                      THEN Respond([r EXCEPT !.path = "missing"], 400, "Token is required")
                      ELSE [r EXCEPT !.pc = "vlookup"]]
    /\ UNCHANGED <<users, now, ticks, db, nextTok, tokens, resetIssued, sessionHist,
                   failRun, lockedAt, announced, consumed>>

(* lines 607-622: findOne resolves *)
VerifyLookup(p) ==
    /\ req[p].pc = "vlookup"
    /\ LET found == FindByResetToken(req[p].resetToken, now)
       IN req' = [req EXCEPT ![p] =
                    IF found = {}
                    THEN Respond([@ EXCEPT !.path = "invalid"], 400, "Invalid or expired reset token")
                    ELSE Respond([@ EXCEPT !.path = "valid"], 200, "Valid reset token")]
    /\ UNCHANGED <<users, now, ticks, db, nextTok, tokens, resetIssued, sessionHist,
                   failRun, lockedAt, announced, consumed>>

----------------------------------------------------------------------------
(* Specifications *)

Init ==
    /\ now = StartMs
    /\ ticks = 0
    /\ db = [a \in {"sa1"} |-> NewAccount("a@x.com", "Passw0rd!")]
    /\ req = [p \in Procs |-> Blank]
    /\ nextTok = 1
    /\ tokens = {}
    /\ resetIssued = {}
    /\ sessionHist = [a \in {"sa1"} |-> <<>>]
    /\ failRun = [a \in {"sa1"} |-> 0]
    /\ lockedAt = [a \in {"sa1"} |-> Null]
    /\ announced = Null
    /\ consumed = {}
    /\ users = [u \in {"u1"} |-> NewUser("u@x.com")]

(* Requests handled one at a time: slot 1 starts a request when it holds none in flight *)
Next ==
    \/ Tick
    \/ LoginStart(1)
    \/ LoginLookup(1)
    \/ LoginClear(1)
    \/ LoginCompare(1)
    \/ LoginInc(1)
    \/ LoginLock(1)
    \/ LoginSucc(1)
    \/ LogoutStart(1)
    \/ AuthGate(1)
    \/ AuthGateLookup(1)
    \/ LogoutSuperAdmin(1)
    \/ ForgotStart(1)
    \/ ForgotLookup(1)
    \/ ForgotSave(1)
    \/ ForgotMail(1)
    \/ ResetStart(1)
    \/ ResetLookup(1)
    \/ ResetSave(1)
    \/ VerifyStart(1)
    \/ VerifyLookup(1)
    \/ RegisterStart(1)
    \/ RegisterLookup(1)

Spec == Init /\ [][Next]_vars

(* Concurrent login requests on one account *)
NextConc ==
    \/ TickConc
    \/ \E p \in Procs : LoginStartWith(p, {"a@x.com"}, Passwords)
    \/ \E p \in Procs : LoginLookup(p)
    \/ \E p \in Procs : LoginClear(p)
    \/ \E p \in Procs : LoginCompare(p)
    \/ \E p \in Procs : LoginInc(p)
    \/ \E p \in Procs : LoginLock(p)
    \/ \E p \in Procs : LoginSucc(p)

SpecConc == Init /\ [][NextConc]_vars

(* Concurrent forgot-password, reset and verify requests, with the clock passing a
   reset token's expiry *)
NextReset ==
    \/ TickReset
    \/ \E p \in Procs : ForgotStartWith(p, Emails)
    \/ \E p \in Procs : ForgotLookupUpTo(p, MaxTokensReset)
    \/ \E p \in Procs : ForgotSave(p)
    \/ \E p \in Procs : ForgotMail(p)
    \/ \E p \in Procs : ResetStartWith(p, NewPasswords)
    \/ \E p \in Procs : ResetLookupUpTo(p, MaxTokensReset)
    \/ \E p \in Procs : ResetSave(p)
    \/ \E p \in Procs : VerifyStart(p)
    \/ \E p \in Procs : VerifyLookup(p)

SpecReset == Init /\ [][NextReset]_vars

(* Login requests that spell the account's address as registered (slot 1) and in
   another letter case (slot 2), and forgot-password requests in either spelling;
   the clock stands still, so no lock expires *)
NextCase ==
    \/ LoginStartWith(1, {"a@x.com"}, Passwords)
    \/ LoginStartWith(2, {"A@X.com"}, Passwords)
    \/ \E p \in Procs : LoginLookup(p)
    \/ \E p \in Procs : LoginCompare(p)
    \/ \E p \in Procs : LoginInc(p)
    \/ \E p \in Procs : LoginLock(p)
    \/ \E p \in Procs : LoginSucc(p)
    \/ ForgotStartWith(2, CaseEmails)
    \/ ForgotLookup(2)
    \/ ForgotSave(2)
    \/ ForgotMail(2)

SpecCase == Init /\ [][NextCase]_vars

(* Concurrent signups *)
NextReg ==
    \/ \E p \in Procs : RegisterStartWith(p, RegEmails \cup {""}, RegPasswords, RegNames, BOOLEAN)
    \/ \E p \in Procs : RegisterLookup(p)
    \/ \E p \in Procs : RegisterUpload(p)
    \/ \E p \in Procs : RegisterHash(p)
    \/ \E p \in Procs : RegisterSave(p)

SpecReg == Init /\ [][NextReg]_vars

(* Logins handled one at a time against a store whose operations may fail *)
NextFail ==
    \/ TickConc
    \/ LoginStartWith(1, {"a@x.com"}, Passwords)
    \/ LoginLookup(1)
    \/ LoginClear(1)
    \/ LoginCompare(1)
    \/ LoginInc(1)
    \/ LoginLock(1)
    \/ LoginSucc(1)
    \/ LoginStoreFails(1)

SpecFail == Init /\ [][NextFail]_vars

(* Login and the gate in one process: a token is minted by a successful login and
   presented to a route behind authMiddleware while the clock passes its expiry and
   the age ceiling *)
NextTrip ==
    \/ TickTrip
    \/ LoginStartWith(1, {"a@x.com"}, {"Passw0rd!"})
    \/ LoginLookup(1)
    \/ LoginCompare(1)
    \/ LoginSucc(1)
    \/ LogoutStart(1)
    \/ AuthGate(1)
    \/ AuthGateLookup(1)
    \/ LogoutSuperAdmin(1)

SpecTrip == Init /\ [][NextTrip]_vars

(* Two registered super-admins and login requests for either *)
InitTwo ==
    /\ now = StartMs
    /\ ticks = 0
    /\ db = [a \in {"sa1", "sa2"} |->
               IF a = "sa1" THEN NewAccount("a@x.com", "Passw0rd!")
               ELSE NewAccount("b@x.com", "Secr3t!x")]
    /\ req = [p \in Procs |-> Blank]
    /\ nextTok = 1
    /\ tokens = {}
    /\ resetIssued = {}
    /\ sessionHist = [a \in {"sa1", "sa2"} |-> <<>>]
    /\ failRun = [a \in {"sa1", "sa2"} |-> 0]
    /\ lockedAt = [a \in {"sa1", "sa2"} |-> Null]
    /\ announced = Null
    /\ consumed = {}
    /\ users = [u \in {"u1"} |-> NewUser("u@x.com")]

NextTwo ==
    \/ TickConc
    \/ LoginStartWith(1, TwoEmails, Passwords)
    \/ LoginLookup(1)
    \/ LoginClear(1)
    \/ LoginCompare(1)
    \/ LoginInc(1)
    \/ LoginLock(1)
    \/ LoginSucc(1)

SpecTwo == InitTwo /\ [][NextTwo]_vars

(* Requests to a route behind authMiddleware, with any header, cookie and token *)
NextGate ==
    \/ TickGate
    \/ GateStart(1)
    \/ AuthGate(1)
    \/ AuthGateLookup(1)
    \/ UpdateStatusCheck(1)
    \/ UpdateStatusLookup(1)
    \/ UpdateStatusSave(1)

SpecGate == Init /\ [][NextGate]_vars

----------------------------------------------------------------------------
(* Properties *)

Range(f) == {f[i] : i \in DOMAIN f}
NoDuplicates(f) == \A i, j \in DOMAIN f : i # j => f[i] # f[j]
LoginDone(p) == req[p].pc = "done" /\ req[p].kind = "login"

(* C1: with requests handled one at a time, once an account has had 3 failed password
   comparisons in a row since its counters were zero, every login attempt on it whose
   lock check runs less than 30 minutes after the third failure is answered 423,
   with a right or a wrong password. *)
C1_DeniedWhileLocked ==
    [][\A p \in Procs : \A a \in DOMAIN db :
          ( /\ req[p].pc = "lookup"
            /\ req'[p] # req[p]
            /\ db[a].email = req[p].email
            /\ failRun[a] >= 3
            /\ lockedAt[a] # Null
            /\ now < lockedAt[a] + 1800000 )
          => (req'[p].pc = "done" /\ req'[p].status = 423)]_vars

C1_Witness ==
    /\ LoginDone(1)
    /\ req[1].status = 423
    /\ req[1].pwOk
    /\ failRun["sa1"] = 3
    /\ now > lockedAt["sa1"]

(* C2: once a login was answered 423 for a lock expiring at T, no login that begins
   after that response and before T is answered with success before T. *)
C2_NoSuccessInsideLock ==
    \A p \in Procs :
        (LoginDone(p) /\ req[p].status = 200)
        => ~(req[p].lockSeen # Null /\ now < req[p].lockSeen)

(* C3: no increment of loginAttempts is lost under concurrent failed logins: the
   counter equals the number of failed comparisons since it was last zeroed, two
   requests of the same run never observe the same post-increment value, and each
   request answers from the value its own increment produced (locked exactly when
   that value is at least 3, else 401 carrying that value). *)
C3_AtomicIncrement ==
    /\ \A a \in DOMAIN db : db[a].loginAttempts = failRun[a]
    /\ \A p, q \in Procs :
         (p # q /\ req[p].sameRun /\ req[q].sameRun /\ req[p].acct = req[q].acct)
         => req[p].observed # req[q].observed
    /\ \A p \in Procs :
         (req[p].kind = "login" /\ req[p].path = "fail")
         => /\ req[p].pc \in {"lock", "done"}
            /\ (req[p].pc = "lock" => req[p].observed >= 3)
            /\ (req[p].pc = "done" =>
                  IF req[p].observed >= 3
                  THEN req[p].status = 423
                  ELSE req[p].status = 401 /\ req[p].attempts = req[p].observed)

C3_Witness ==
    /\ req[1].pc = "done" /\ req[2].pc = "done"
    /\ req[1].sameRun /\ req[2].sameRun
    /\ req[1].observed = 3 /\ req[2].observed = 4
    /\ db["sa1"].loginAttempts = 4

(* C4: a failed comparison on an account with loginAttempts = n stores n + 1; when
   n + 1 reaches 3 the request computes lockUntil = now + 30 minutes, stores it and
   answers 423; otherwise it leaves lockUntil as it was and answers 401 with
   attempts = n + 1. *)
C4_FailedAttempt ==
    [][\A p \in Procs :
          LET a == req[p].saId IN
          /\ (req[p].pc = "inc" /\ req'[p] # req[p]) =>
                LET n == db[a].loginAttempts IN
                /\ db'[a].loginAttempts = n + 1
                /\ db'[a].lockUntil = db[a].lockUntil
                /\ IF n + 1 >= 3
                   THEN /\ req'[p].pc = "lock"
                        /\ req'[p].lockTime = now + 1800000
                        /\ req'[p].lockTime > now
                   ELSE /\ req'[p].pc = "done"
                        /\ req'[p].status = 401
                        /\ req'[p].attempts = n + 1
          /\ (req[p].pc = "lock" /\ req'[p] # req[p]) =>
                /\ db'[a].lockUntil = req[p].lockTime
                /\ db'[a].loginAttempts = db[a].loginAttempts
                /\ req'[p].pc = "done"
                /\ req'[p].status = 423]_vars

C4_Witness ==
    /\ LoginDone(1)
    /\ req[1].path = "fail"
    /\ req[1].status = 423
    /\ db["sa1"].loginAttempts = 3
    /\ db["sa1"].lockUntil = lockedAt["sa1"] + 1800000

(* C5: a login that finds lockUntil set and in the future answers 423 at once: no
   password comparison, no change to the account record, and the minutes reported are
   the remaining lock time rounded up, between 1 and 30. *)
C5_DenyWithoutSideEffect ==
    [][\A p \in Procs : \A a \in DOMAIN db :
          ( /\ req[p].pc = "lookup"
            /\ req'[p] # req[p]
            /\ db[a].email = req[p].email
            /\ db[a].lockUntil # Null
            /\ db[a].lockUntil > now )
          => LET d == db[a].lockUntil - now
                 m == req'[p].remaining
             IN /\ req'[p].pc = "done"
                /\ req'[p].status = 423
                /\ ~req'[p].compared
                /\ db' = db
                /\ m \in 1..30
                /\ (m - 1) * 60000 < d
                /\ d <= m * 60000]_vars

C5_Witness ==
    /\ LoginDone(1)
    /\ req[1].path = "locked"
    /\ req[1].status = 423
    /\ req[1].remaining = 1
    /\ db["sa1"].lockUntil = now + 1

(* C6: a login that finds lockUntil set but passed first zeroes loginAttempts and
   clears lockUntil, only then compares the password; a wrong password then stores
   loginAttempts = 1, reports attempts = 1 and sets no lock. *)
C6_ExpiredLockStartsAfresh ==
    [][\A p \in Procs : \A a \in DOMAIN db :
          /\ ( /\ req[p].pc = "lookup"
               /\ req'[p] # req[p]
               /\ db[a].email = req[p].email
               /\ db[a].lockUntil # Null
               /\ db[a].lockUntil <= now )
             => (req'[p].pc = "clear" /\ req'[p].sawExpired /\ ~req'[p].compared)
          /\ (req[p].pc = "clear" /\ req[p].saId = a /\ req'[p] # req[p])
             => /\ db'[a].loginAttempts = 0
                /\ db'[a].lockUntil = Null
                /\ req'[p].pc = "compare"
                /\ ~req'[p].compared
          /\ (req[p].pc = "inc" /\ req[p].saId = a /\ req[p].sawExpired /\ req'[p] # req[p])
             => /\ db'[a].loginAttempts = 1
                /\ db'[a].lockUntil = Null
                /\ req'[p].pc = "done"
                /\ req'[p].status = 401
                /\ req'[p].attempts = 1]_vars

C6_Witness ==
    /\ LoginDone(1)
    /\ req[1].sawExpired
    /\ req[1].path = "fail"
    /\ req[1].attempts = 1
    /\ db["sa1"].loginAttempts = 1
    /\ db["sa1"].lockUntil = Null

(* C7: the store update of a successful login leaves loginAttempts = 0, lockUntil
   null, lastLogin set and a sessionId that was never generated or stored before, and
   the token returned carries that sessionId. *)
C7_SuccessfulLogin ==
    [][\A p \in Procs :
          (req[p].pc = "succ" /\ req'[p] # req[p]) =>
             LET a == req[p].saId IN
             /\ db'[a].loginAttempts = 0
             /\ db'[a].lockUntil = Null
             /\ db'[a].lastLogin # Null
             /\ db'[a].sessionId # Null
             /\ db'[a].sessionId # db[a].sessionId
             /\ db'[a].sessionId \notin Range(sessionHist[a])
             /\ db'[a].sessionId \notin resetIssued
             /\ req'[p].pc = "done"
             /\ req'[p].status = 200
             /\ req'[p].token.sessionId = db'[a].sessionId
             /\ req'[p].token.uid = a]_vars

C7_Witness ==
    /\ LoginDone(1)
    /\ req[1].status = 200
    /\ Len(sessionHist["sa1"]) = 2
    /\ req[1].token.sessionId = db["sa1"].sessionId

(* C8: no value is stored twice as an account's sessionId over logins, logouts and
   password resets, and a logout of a super-admin that passed the gate leaves the
   account with a sessionId it never held. *)
C8_SessionIdNeverReused ==
    /\ \A a \in DOMAIN db :
         /\ NoDuplicates(sessionHist[a])
         /\ db[a].sessionId = (IF sessionHist[a] = <<>> THEN Null
                               ELSE sessionHist[a][Len(sessionHist[a])])
    /\ \A p \in Procs :
         (req[p].pc = "done" /\ req[p].kind = "logout" /\ req[p].status = 201)
         => Len(sessionHist[req[p].acct]) >= 2

C8_Witness ==
    /\ req[1].pc = "done"
    /\ req[1].kind = "logout"
    /\ req[1].status = 201
    /\ Len(sessionHist["sa1"]) = 2

(* C9: authMiddleware lets a token through only while the account's stored sessionId
   equals the sessionId in the token. *)
C9_GateChecksSession ==
    \A p \in Procs :
        req[p].pc = "handler" => db[req[p].jwt.uid].sessionId = req[p].jwt.sessionId

(* C10: with requests handled one at a time, a successful resetPasswordWithToken
   clears passwordResetToken and passwordResetExpires, and every later
   resetPasswordWithToken or verifyResetToken with that token is answered 400
   "Invalid or expired reset token". *)
C10_ResetTokenSingleUse ==
    [][\A p \in Procs :
          /\ (req[p].pc = "rsave" /\ req'[p] # req[p]) =>
                LET a == req[p].saId IN
                /\ db'[a].passwordResetToken = Null
                /\ db'[a].passwordResetExpires = Null
                /\ req'[p].status = 200
          /\ ( /\ req[p].pc \in {"rlookup", "vlookup"}
               /\ req'[p] # req[p]
               /\ req[p].resetToken \in consumed )
             => /\ req'[p].pc = "done"
                /\ req'[p].status = 400
                /\ req'[p].message = "Invalid or expired reset token"]_vars

C10_Witness ==
    /\ req[1].pc = "done"
    /\ req[1].kind = "reset"
    /\ req[1].usedToken
    /\ req[1].status = 400
    /\ db["sa1"].passwordResetToken = Null

(* C11: of two concurrent resetPasswordWithToken requests that present the same valid
   token with different new passwords, at most one is answered with success. *)
C11_OneResetPerToken ==
    \A p, q \in Procs :
        ( /\ p # q
          /\ req[p].pc = "done" /\ req[p].kind = "reset" /\ req[p].status = 200
          /\ req[q].pc = "done" /\ req[q].kind = "reset" /\ req[q].status = 200
          /\ req[p].forPassword # req[q].forPassword )
        => req[p].forToken # req[q].forToken

(* C12: resetPasswordWithToken and verifyResetToken answer a stored token whose expiry
   has passed exactly as they answer a token that was never issued: 400 "Invalid or
   expired reset token", and no account record changes in either case. *)
C12_ExpiredLikeUnknown ==
    [][\A p \in Procs :
          ( /\ req[p].pc \in {"rlookup", "vlookup"}
            /\ req'[p] # req[p]
            /\ \/ req[p].resetToken \notin resetIssued
               \/ \E a \in DOMAIN db :
                     /\ db[a].passwordResetToken = req[p].resetToken
                     /\ db[a].passwordResetExpires <= now )
          => /\ req'[p].pc = "done"
             /\ req'[p].status = 400
             /\ req'[p].message = "Invalid or expired reset token"
             /\ db' = db]_vars

C12_Witness ==
    /\ req[1].pc = "done" /\ req[1].kind = "verify" /\ req[1].status = 400
    /\ req[1].forToken = db["sa1"].passwordResetToken
    /\ db["sa1"].passwordResetExpires <= now
    /\ req[2].pc = "done" /\ req[2].kind = "reset" /\ req[2].status = 400
    /\ req[2].forToken \notin resetIssued
    /\ req[1].message = req[2].message

(* C13: resetPasswordWithToken with a valid unexpired token and a new password equal
   to the current one is answered 400 and changes nothing: the hash, the token fields
   and the sessionId stay, and the token still finds the account. *)
C13_SamePasswordRejected ==
    [][\A p \in Procs : \A a \in DOMAIN db :
          ( /\ req[p].pc = "rlookup"
            /\ req[p].kind = "reset"
            /\ req'[p] # req[p]
            /\ db[a].passwordResetToken = req[p].resetToken
            /\ db[a].passwordResetExpires > now
            /\ db[a].password = HashPassword(req[p].password) )
          => /\ req'[p].pc = "done"
             /\ req'[p].status = 400
             /\ req'[p].message = "New password cannot be the same as the current password"
             /\ db' = db
             /\ sessionHist' = sessionHist
             /\ consumed' = consumed
             /\ db'[a].passwordResetToken = req[p].resetToken
             /\ db'[a].passwordResetExpires > now']_vars

C13_Witness ==
    /\ req[1].pc = "done" /\ req[1].kind = "reset" /\ req[1].path = "same"
    /\ req[1].status = 400
    /\ db["sa1"].passwordResetToken = req[1].forToken
    /\ db["sa1"].passwordResetExpires > now
    /\ db["sa1"].password = HashPassword("Passw0rd!")

(* C14: in every reachable state of every account passwordResetToken is null exactly
   when passwordResetExpires is null. *)
C14_TokenFieldsTogether ==
    \A a \in DOMAIN db :
        (db[a].passwordResetToken = Null) <=> (db[a].passwordResetExpires = Null)

C14_Witness ==
    /\ consumed # {}
    /\ db["sa1"].passwordResetToken # Null
    /\ db["sa1"].passwordResetExpires # Null

(* C15: once resetPasswordWithToken or verifyResetToken has answered "Invalid or
   expired reset token" for a token, no account still stores that token: a token
   seen past its expiry has been cleared. *)
C15_ExpiredTokenCleared ==
    \A p \in Procs :
        ( /\ req[p].pc = "done"
          /\ req[p].kind \in {"reset", "verify"}
          /\ req[p].path = "invalid" )
        => \A a \in DOMAIN db : db[a].passwordResetToken # req[p].forToken

(* C16: a forgotPassword request for an address without an account and one for an
   address with an account whose mail was sent receive the same status and message. *)
C16_ForgotSameResponse ==
    \A p, q \in Procs :
        ( /\ req[p].pc = "done" /\ req[p].kind = "forgot" /\ req[p].path = "unknown"
          /\ req[q].pc = "done" /\ req[q].kind = "forgot" /\ req[q].path = "sent" )
        => /\ req[p].status = req[q].status
           /\ req[p].message = req[q].message

(* C17: forgotPassword draws a reset token and goes on to sendPasswordResetEmail only
   when the address matches an account, and then stores the token with an expiry of
   exactly one hour after the clock value at which it was drawn; without a match it
   returns with no record changed, no token drawn and no mail sent. *)
C17_MintOnlyOnMatch ==
    [][\A p \in Procs :
          /\ (req[p].pc = "flookup" /\ req'[p] # req[p]) =>
                IF \E a \in DOMAIN db : db[a].email = req[p].email
                THEN /\ req'[p].pc = "fsave"
                     /\ db[req'[p].saId].email = req[p].email
                     /\ req'[p].resetToken = nextTok
                     /\ nextTok' = nextTok + 1
                     /\ req'[p].resetToken \notin resetIssued
                     /\ req'[p].expiry = now + 3600000
                     /\ db' = db
                ELSE /\ req'[p].pc = "done"
                     /\ db' = db
                     /\ nextTok' = nextTok
                     /\ resetIssued' = resetIssued
          /\ (req[p].pc = "fsave" /\ req'[p] # req[p]) =>
                LET a == req[p].saId IN
                /\ db'[a].passwordResetToken = req[p].resetToken
                /\ db'[a].passwordResetExpires = req[p].expiry
                /\ req'[p].pc = "fmail"
          /\ (req'[p].pc = "fmail" /\ req[p].pc # "fmail") => req[p].pc = "fsave"
          /\ (req'[p].kind = "forgot" /\ req'[p].path \in {"sent", "unsent"} /\ req'[p] # req[p])
                => req[p].pc = "fmail"]_vars

C17_Witness ==
    /\ req[1].pc = "done" /\ req[1].kind = "forgot" /\ req[1].path = "sent"
    /\ db["sa1"].passwordResetToken \in resetIssued
    /\ db["sa1"].passwordResetExpires = now + 3600000

(* C18: when sendPasswordResetEmail returns false the token and expiry that
   forgotPassword wrote stay stored and the answer is 500 "Failed to send password
   reset email", unlike the 400 "Email is required" of a request without an email. *)
C18_MailFailureKeepsToken ==
    [][\A p \in Procs :
          /\ (req[p].pc = "fmail" /\ req'[p] # req[p] /\ req'[p].path = "unsent") =>
                LET a == req[p].saId IN
                /\ req'[p].pc = "done"
                /\ req'[p].status = 500
                /\ req'[p].message = "Failed to send password reset email"
                /\ db' = db
                /\ db'[a].passwordResetToken = req[p].resetToken
                /\ db'[a].passwordResetExpires = req[p].expiry
          /\ (req'[p].kind = "forgot" /\ req'[p].status = 400 /\ req'[p] # req[p]) =>
                /\ req'[p].message = "Email is required"
                /\ req'[p].path = ""
                /\ db' = db]_vars

C18_Witness ==
    /\ req[1].pc = "done" /\ req[1].kind = "forgot" /\ req[1].path = "unsent"
    /\ req[1].status = 500
    /\ db["sa1"].passwordResetToken \in resetIssued
    /\ db["sa1"].passwordResetExpires > now

(* C19: a login for an address that matches no account is answered 401 "Invalid
   credentials", the status and message a wrong password on an existing account gets
   below the threshold, carries no attempts field and changes no account record. *)
C19_UnknownAccountGeneric ==
    [][\A p \in Procs :
          /\ ( /\ req[p].pc = "lookup"
               /\ req'[p] # req[p]
               /\ \A a \in DOMAIN db : db[a].email # req[p].email )
             => /\ req'[p].pc = "done"
                /\ req'[p].status = 401
                /\ req'[p].message = "Invalid credentials"
                /\ req'[p].attempts = Null
                /\ ~req'[p].compared
                /\ db' = db
          /\ (req[p].pc = "inc" /\ req'[p] # req[p] /\ req'[p].pc = "done")
             => /\ req'[p].status = 401
                /\ req'[p].message = "Invalid credentials"]_vars

C19_Witness ==
    /\ LoginDone(1)
    /\ req[1].path = "unknown"
    /\ req[1].status = 401
    /\ req[1].attempts = Null
    /\ db["sa1"].loginAttempts = 2

(* C20: a login with the account's address in either letter case resolves to the
   account stored under the lower-cased address, the one forgotPassword finds too, and
   a failed comparison of either request adds one to that account's loginAttempts. *)
C20_CaseInsensitiveLookup ==
    [][\A p \in Procs :
          /\ ( /\ req[p].pc \in {"lookup", "flookup"}
               /\ req'[p] # req[p]
               /\ req[p].email \in {"a@x.com", "A@X.com"} )
             => /\ req'[p].acct = "sa1"
                /\ db["sa1"].email = "a@x.com"
                /\ req'[p].path # "unknown"
          /\ ( /\ req[p].pc = "inc"
               /\ req'[p] # req[p]
               /\ req[p].email \in {"a@x.com", "A@X.com"} )
             => db'["sa1"].loginAttempts = db["sa1"].loginAttempts + 1]_vars

C20_Witness ==
    /\ req[1].kind = "login" /\ req[1].email = "a@x.com" /\ req[1].pc = "lock"
    /\ req[2].kind = "login" /\ req[2].email = "A@X.com" /\ req[2].pc = "lock"
    /\ req[1].saId = req[2].saId
    /\ req[1].observed = 4 /\ req[2].observed = 3
    /\ db["sa1"].loginAttempts = 4

(* The credential lines 39-46 must select: the header's when the header starts with
   "Bearer ", else the cookie's *)
Presented(r) == IF r.header.scheme = "Bearer" THEN r.header.cred ELSE r.cookie
Rejected401(r) == r.pc = "done" /\ r.status = 401

(* C21: authMiddleware takes the token from the Authorization header when it starts
   with "Bearer " and from the accessToken cookie only otherwise; with both present the
   header token alone decides, and with no token the answer is 401 "Token is missing"
   and next is not called. *)
C21_HeaderPrecedence ==
    [][\A p \in Procs :
          (req[p].pc = "gate" /\ req'[p] # req[p]) =>
             LET h == req[p].header
                 c == req[p].cookie
             IN /\ (h.scheme = "Bearer" /\ ~h.cred.present) =>
                      /\ Rejected401(req'[p])
                      /\ req'[p].message = "Unauthorized Access, Token is missing"
                /\ (h.scheme = "Bearer" /\ h.cred.present /\ ~h.cred.signed) =>
                      /\ Rejected401(req'[p])
                      /\ req'[p].message = "Invalid token"
                /\ (h.scheme # "Bearer" /\ ~c.present) =>
                      /\ Rejected401(req'[p])
                      /\ req'[p].message = "Unauthorized Access, Token is missing"
                /\ (h.scheme # "Bearer" /\ c.present /\ ~c.signed) =>
                      /\ Rejected401(req'[p])
                      /\ req'[p].message = "Invalid token"
                /\ req'[p].pc = "glookup" =>
                      /\ Presented(req[p]).present
                      /\ Presented(req[p]).signed
                      /\ req'[p].jwt = Presented(req[p]).tok]_vars

C21_Witness ==
    /\ req[1].pc = "glookup"
    /\ req[1].header.scheme = "Bearer"
    /\ req[1].cookie.present
    /\ req[1].cookie.tok # req[1].header.cred.tok
    /\ req[1].jwt = req[1].header.cred.tok
    /\ req[1].jwt.role = "USER"

(* C22: authMiddleware answers 401 to every correctly signed token whose exp has
   passed and to every correctly signed token whose iat is more than 24 hours before
   the current time, also when its exp is still in the future ("Token is too old"). *)
C22_ExpiredOrTooOldRejected ==
    [][\A p \in Procs :
          ( /\ req[p].pc = "gate"
            /\ req'[p] # req[p]
            /\ Presented(req[p]).present
            /\ Presented(req[p]).signed ) =>
             LET tk == Presented(req[p]).tok
             IN /\ (tk.exp # 0 /\ tk.exp * 1000 < now) => Rejected401(req'[p])
                /\ (tk.iat # 0 /\ tk.iat * 1000 < now - 86400000) => Rejected401(req'[p])
                /\ ( /\ tk.uid # NoId /\ tk.role # "none" /\ tk.iat # 0 /\ tk.exp # 0
                     /\ tk.exp * 1000 >= now
                     /\ tk.iat * 1000 < now - 86400000 )
                   => req'[p].message = "Token is too old"]_vars

C22_Witness ==
    /\ req[1].pc = "done"
    /\ req[1].kind = "status"
    /\ req[1].status = 401
    /\ req[1].message = "Token is too old"

(* C23: a request reaches the handler only from the account lookup of a token that is
   present, correctly signed, complete (role, subject id, iat, exp), not expired, not
   too old and of a known role, whose account exists and is not deactivated; req.user
   then holds the account's id, the token's role, the account's email and the token's
   sessionId.  Every other request ends with 401 or 404 and never reaches the handler. *)
C23_NextOnlyWhenValid ==
    [][\A p \in Procs :
          /\ (req'[p].pc = "glookup" /\ req[p].pc # "glookup") =>
                LET tk == req'[p].jwt
                IN /\ req[p].pc = "gate"
                   /\ Presented(req[p]).present
                   /\ Presented(req[p]).signed
                   /\ tk = Presented(req[p]).tok
                   /\ tk.uid # NoId /\ tk.role # "none" /\ tk.iat # 0 /\ tk.exp # 0
                   /\ tk.exp * 1000 >= now
                   /\ tk.iat * 1000 >= now - 86400000
                   /\ tk.role \in {"SUPERADMIN", "USER"}
          /\ (req'[p].pc = "handler" /\ req[p].pc # "handler") =>
                LET tk == req[p].jwt
                    docs == IF tk.role = "SUPERADMIN" THEN db ELSE users
                IN /\ req[p].pc = "glookup"
                   /\ tk.uid \in DOMAIN docs
                   /\ ~("isActive" \in DOMAIN docs[tk.uid] /\ ~docs[tk.uid].isActive)
                   /\ req'[p].user = [id |-> tk.uid, role |-> tk.role,
                                      email |-> docs[tk.uid].email,
                                      sessionId |-> tk.sessionId]
          /\ ( /\ req[p].pc \in {"gate", "glookup"}
               /\ req'[p] # req[p]
               /\ req'[p].pc \notin {"glookup", "handler"} )
             => /\ req'[p].pc = "done"
                /\ req'[p].status \in {401, 404}
                /\ req'[p].user = NoUser]_vars

C23_Witness ==
    /\ req[1].pc = "handler"
    /\ req[1].kind = "status"
    /\ req[1].user.id = "sa1"
    /\ req[1].user.role = "SUPERADMIN"
    /\ req[1].user.email = "a@x.com"
    /\ req[1].user.sessionId = 7

(* C24: no request of an inactive account reaches the handler, whatever its role: a
   super-admin with isActive false, a user whose accountStatus is not ACTIVE. *)
C24_InactiveNeverPasses ==
    \A p \in Procs :
        req[p].pc = "handler" =>
           /\ (req[p].user.role = "SUPERADMIN" => db[req[p].user.id].isActive)
           /\ (req[p].user.role = "USER" => users[req[p].user.id].accountStatus = "ACTIVE")

(* C25: a correctly signed token whose role is neither the super-administrator role
   nor USER is answered 401 by the synchronous checks, before any account lookup; a
   token of either role is looked up in that role's collection only, and is answered
   404 when its subject id is not there. *)
C25_RoleDispatch ==
    [][\A p \in Procs :
          /\ ( /\ req[p].pc = "gate"
               /\ req'[p] # req[p]
               /\ Presented(req[p]).present
               /\ Presented(req[p]).signed
               /\ Presented(req[p]).tok.role \notin {"SUPERADMIN", "USER"} )
             => Rejected401(req'[p])
          /\ (req[p].pc = "glookup" /\ req'[p] # req[p]) =>
                LET tk == req[p].jwt
                IN /\ (tk.role = "USER" /\ tk.uid \notin DOMAIN users) =>
                         (req'[p].pc = "done" /\ req'[p].status = 404)
                   /\ (tk.role = "SUPERADMIN" /\ tk.uid \notin DOMAIN db) =>
                         (req'[p].pc = "done" /\ req'[p].status = 404)
                   /\ (req'[p].pc = "handler" /\ tk.role = "USER") =>
                         req'[p].user.email = users[tk.uid].email
                   /\ (req'[p].pc = "handler" /\ tk.role = "SUPERADMIN") =>
                         req'[p].user.email = db[tk.uid].email]_vars

C25_Witness ==
    /\ req[1].pc = "done"
    /\ req[1].kind = "status"
    /\ req[1].status = 404
    /\ req[1].asRole = "USER"
    /\ req[1].asUid = "sa1"

(* C26: updateUserStatus first checks the caller's role: a caller whose role is not
   exactly SUPERADMIN is answered 403 at once, before any input is examined, and no
   user record is read or written. *)
C26_RoleCheckedFirst ==
    [][\A p \in Procs :
          ( /\ req[p].pc = "handler"
            /\ req[p].kind = "status"
            /\ req'[p] # req[p]
            /\ req[p].user.role # "SUPERADMIN" )
          => /\ req'[p].pc = "done"
             /\ req'[p].status = 403
             /\ req'[p].message = "Only super admin can update user status"
             /\ users' = users]_vars

C26_Witness ==
    /\ req[1].pc = "done"
    /\ req[1].kind = "status"
    /\ req[1].status = 403
    /\ req[1].asRole = "USER"
    /\ req[1].asUid = "u1"
    /\ users["u1"].accountStatus = "BANNED"

(* C27: every token loginSuperAdmin issues has exp = iat + 3600 seconds, and the login
   response delivers it with a cookie max-age of 3600 seconds and expiresIn = 3600. *)
C27_OneHourToken ==
    /\ \A tk \in tokens : tk.exp = tk.iat + 3600
    /\ \A p \in Procs :
         (LoginDone(p) /\ req[p].status = 200) =>
            /\ req[p].token \in tokens
            /\ req[p].cookieMaxAge = (req[p].token.exp - req[p].token.iat) * 1000
            /\ req[p].expiresIn = req[p].token.exp - req[p].token.iat
            /\ req[p].expiresIn = 3600

C27_Witness ==
    /\ LoginDone(1)
    /\ req[1].status = 200
    /\ req[1].token.iat = now \div 1000
    /\ req[1].token.iat > StartMs \div 1000
    /\ req[1].token.exp = req[1].token.iat + 3600
    /\ req[1].cookieMaxAge = 3600000

(* C28: a step of a login request for account A's address leaves the loginAttempts,
   lockUntil and sessionId of every other account B as they were. *)
C28_LockoutPerAccount ==
    [][\A p \in Procs : \A b \in DOMAIN db :
          ( /\ req[p].kind = "login"
            /\ req[p].pc \notin {"idle", "done"}
            /\ req'[p] # req[p]
            /\ db[b].email # req[p].email )
          => /\ db'[b].loginAttempts = db[b].loginAttempts
             /\ db'[b].lockUntil = db[b].lockUntil
             /\ db'[b].sessionId = db[b].sessionId]_vars

C28_Witness ==
    /\ LoginDone(1)
    /\ req[1].acct = "sa1"
    /\ req[1].status = 423
    /\ req[1].path = "fail"
    /\ db["sa1"].loginAttempts = 3
    /\ db["sa1"].lockUntil # Null
    /\ db["sa2"].loginAttempts = 1
    /\ db["sa2"].lockUntil = Null
    /\ db["sa2"].sessionId # Null
----------------------------------------------------------------------------
(* C29: a signup whose email is already stored is answered 409 and stores nothing, at the
   lookup and at the insert (a valid document racing another signup); no two accounts ever
   share an email; a created answer comes with exactly one new account; and every signup
   that uploaded an image and did not answer 201 called deleteFromCloudinary. *)
C29_SignupConflict ==
    [][ /\ \A a, b \in DOMAIN db' : a # b => db'[a].email # db'[b].email
        /\ \A p \in Procs :
             /\ ( /\ req'[p].kind = "register" /\ req'[p].pc = "done"
                  /\ req'[p].imageUp /\ req'[p].status # 201 ) => req'[p].imageDeleted
             /\ ( /\ req[p].pc \in {"reglookup", "regsave"} /\ req'[p] # req[p]
                  /\ \E a \in DOMAIN db : db[a].email = ToLowerCase(req[p].email)
                  /\ (req[p].pc = "regsave" => req[p].userName # "") )
                => /\ req'[p].pc = "done" /\ req'[p].status = 409
                   /\ db' = db
             /\ ( /\ req[p].kind = "register" /\ req[p].pc # "done" /\ req'[p].pc = "done"
                  /\ req'[p].status = 201 )
                => /\ Cardinality(DOMAIN db') = Cardinality(DOMAIN db) + 1
                   /\ ~ \E a \in DOMAIN db : db[a].email = ToLowerCase(req[p].email)
                   /\ db'[req'[p].acct].email = ToLowerCase(req[p].email)
                   /\ \A a \in DOMAIN db : db'[a] = db[a] ]_vars

(* Two signups for the same new address ran together: one created the account, the other
   failed on the insert after uploading its image, and deleted the image *)
C29_Witness ==
    \E p, q \in Procs :
      /\ p # q
      /\ req[p].pc = "done" /\ req[p].kind = "register" /\ req[p].status = 201
      /\ req[q].pc = "done" /\ req[q].kind = "register" /\ req[q].status = 409
      /\ req[q].path = "duplicate" /\ req[q].imageUp /\ req[q].imageDeleted
      /\ Cardinality({a \in DOMAIN db : db[a].email = "new@x.com"}) = 1

(* The answers to absent or malformed input *)
ValidationMessages ==
    {"Email and password are required", "Email is required",
     "Token and new password are required", "Token is required", PolicyMessage}

(* C30: a request answered 400 wrote no record, in that step or before; an answer to
   missing or policy-failing input is given by the handler's first step; and no lookup is
   in flight for a login without email or password, a forgot without email, a signup or
   reset with a password failing the policy, a reset without token or new password, or a
   verify without token. *)
C30_ValidationErrorsInert ==
    [][ \A p \in Procs :
          /\ (req'[p] # req[p] /\ req'[p].pc = "done" /\ req'[p].status = 400)
             => /\ db' = db /\ users' = users
                /\ ~req'[p].wrote
                /\ req'[p].message \in ValidationMessages => Free(p)
          /\ req'[p].pc = "lookup" => (req'[p].email # "" /\ req'[p].password # "")
          /\ req'[p].pc = "flookup" => req'[p].email # ""
          /\ req'[p].pc \in {"reglookup", "rlookup"} => req'[p].password \notin {"", "weak"}
          /\ (req'[p].pc = "rlookup" /\ req'[p].kind = "reset") => req'[p].resetToken # Null
          /\ req'[p].pc = "vlookup" => req'[p].resetToken # Null ]_vars

(* A reset that presented the pending token of a mail with a password failing the policy
   was answered 400, and the token is still stored *)
C30_Witness ==
    /\ req[1].pc = "done" /\ req[1].kind = "reset" /\ req[1].status = 400
    /\ req[1].path = "policy"
    /\ req[1].forToken \in resetIssued
    /\ db["sa1"].passwordResetToken = req[1].forToken

----------------------------------------------------------------------------
(* C31: a login whose store operation fails is answered 500 (not 401, not 423) and that
   step writes nothing; the request has incremented loginAttempts only if its password
   comparison had failed; and once no request is in flight, no account has loginAttempts
   at or above 3 with no lock set. *)
C31_StoreFailure ==
    [][ /\ \A p \in Procs :
             (req'[p] # req[p] /\ req'[p].pc = "done" /\ req'[p].path = "storefail")
             => /\ req'[p].status = 500
                /\ db' = db
                /\ req'[p].observed # Null => (req'[p].compared /\ ~req'[p].pwOk)
        /\ (\A p \in Procs : req'[p].pc \in {"idle", "done"})
           => \A a \in DOMAIN db' :
                ~(db'[a].loginAttempts >= LockThreshold /\ db'[a].lockUntil = Null) ]_vars

----------------------------------------------------------------------------
(* Some account stores this reset token with an expiry later than t *)
TokenLive(tok, t) ==
    \E a \in DOMAIN db : db[a].passwordResetToken = tok /\ db[a].passwordResetExpires > t

(* C32: no step of a verifyResetToken request changes an account or user record; its
   lookup answers valid (200) exactly when some account stores the token unexpired, and
   the lookup of resetPasswordWithToken finds an account under exactly the same condition. *)
C32_VerifyReadOnly ==
    [][ \A p \in Procs :
          /\ (req'[p] # req[p] /\ req'[p].kind = "verify")
             => (db' = db /\ users' = users /\ ~req'[p].wrote)
          /\ (req[p].pc = "vlookup" /\ req'[p] # req[p])
             => /\ req'[p].pc = "done"
                /\ req'[p].status = 200 <=> TokenLive(req[p].resetToken, now)
                /\ req'[p].status # 200 => req'[p].status = 400
          /\ (req[p].pc = "rlookup" /\ req[p].kind = "reset" /\ req'[p] # req[p])
             => (req'[p].path # "invalid" <=> TokenLive(req[p].resetToken, now)) ]_vars

(* A token was verified as valid and a reset with that same token succeeded *)
C32_Witness ==
    \E p, q \in Procs :
      /\ p # q
      /\ req[p].pc = "done" /\ req[p].kind = "verify" /\ req[p].status = 200
      /\ req[p].path = "valid"
      /\ req[q].pc = "done" /\ req[q].kind = "reset" /\ req[q].status = 200
      /\ req[q].forToken = req[p].forToken

----------------------------------------------------------------------------
(* C33: the save of updateUserStatus sets accountStatus to BANNED for BAN, SUSPENDED for
   SUSPEND and ACTIVE for ACTIVATE whatever the status was (so a repeated action gives
   the same status) and leaves the warnings alone; a WARN with a reason (and a severity
   of the schema) adds exactly one warning and leaves accountStatus alone; no other step
   of such a request changes a user, and a request answered for a missing or unknown
   action, an unknown user or a WARN without reason has written nothing. *)
C33_StatusMapping ==
    [][ \A p \in Procs :
          /\ (req[p].kind = "status" /\ req'[p] # req[p] /\ req[p].pc # "usave")
             => users' = users
          /\ (req[p].pc = "usave" /\ req'[p] # req[p] /\ req'[p].status = 200)
             => LET u == req[p].userId
                    a == req[p].action
                IN /\ req[p].user.role = "SUPERADMIN"
                   /\ u \in DOMAIN users
                   /\ \A v \in DOMAIN users \ {u} : users'[v] = users[v]
                   /\ users'[u].email = users[u].email
                   /\ a = "BAN" => (users'[u].accountStatus = "BANNED"
                                    /\ users'[u].warnings = users[u].warnings)
                   /\ a = "SUSPEND" => (users'[u].accountStatus = "SUSPENDED"
                                        /\ users'[u].warnings = users[u].warnings)
                   /\ a = "ACTIVATE" => (users'[u].accountStatus = "ACTIVE"
                                         /\ users'[u].warnings = users[u].warnings)
                   /\ a = "WARN" => (users'[u].accountStatus = users[u].accountStatus
                                     /\ users'[u].warnings = users[u].warnings + 1)
                   /\ a \in {"BAN", "SUSPEND", "ACTIVATE", "WARN"}
          /\ (req'[p].pc = "done" /\ req'[p].kind = "status"
              /\ req'[p].path \in {"noaction", "badaction", "nouser", "noreason"})
             => (~req'[p].wrote /\ (req'[p] # req[p] => users' = users)) ]_vars

(* A warning was issued to a user suspended earlier: the user is still suspended and has
   one warning *)
C33_Witness ==
    /\ req[1].pc = "done" /\ req[1].kind = "status" /\ req[1].path = "warned"
    /\ req[1].status = 200
    /\ users["u1"].accountStatus = "SUSPENDED"
    /\ users["u1"].warnings = 1

----------------------------------------------------------------------------
(* C34: whenever no login request is in flight and the account's lockUntil lies in the
   future, its loginAttempts is at least 3. *)
C34_LockedMeansThreshold ==
    (\A p \in Procs : Free(p))
    => \A a \in DOMAIN db :
         IsLocked(db[a].lockUntil, now) => db[a].loginAttempts >= LockThreshold

----------------------------------------------------------------------------
(* C35: with requests handled one at a time, a login is denied as locked only while
   lockUntil is still in the future; a login with the correct password that found the
   account not locked (its lock expired or cleared) succeeds; no step moves a pending
   lockUntil; and a stored lockUntil is never later than 30 minutes after the failed
   comparison that locked the account. *)
C35_LockExpires ==
    [][ /\ \A p \in Procs :
             /\ (req[p].pc = "lookup" /\ req'[p].pc = "done" /\ req'[p].path = "locked")
                => \E a \in DOMAIN db :
                     /\ req'[p].acct = a
                     /\ db[a].lockUntil # Null /\ db[a].lockUntil > now
             /\ (req'[p].pc = "done" /\ req'[p].kind = "login" /\ req'[p].acct # NoId
                 /\ req'[p].pwOk /\ req'[p].path # "locked")
                => req'[p].status = 200
        /\ \A a \in DOMAIN db :
             /\ (db[a].lockUntil # Null /\ db[a].lockUntil > now)
                => db'[a].lockUntil = db[a].lockUntil
             /\ db'[a].lockUntil # Null
                => /\ lockedAt'[a] # Null
                   /\ db'[a].lockUntil <= lockedAt'[a] + LockMs ]_vars

(* A login with the correct password, made after the lock had passed, succeeded *)
C35_Witness ==
    /\ req[1].pc = "done" /\ req[1].kind = "login" /\ req[1].status = 200
    /\ req[1].sawExpired /\ req[1].pwOk
    /\ lockedAt["sa1"] = Null
    /\ now >= StartMs + LockMs

----------------------------------------------------------------------------
(* C36: every token minted by a login names the account that logged in, its email, role
   SUPERADMIN and a session id that login stored; presented to the gate before its exp
   it passes the token checks, and with the account present and active the gate attaches
   that id, email, role and session id and hands over to the route. *)
C36_LoginGateRoundTrip ==
    [][ /\ \A tk \in tokens' :
             /\ tk.uid \in DOMAIN db'
             /\ tk.role = "SUPERADMIN"
             /\ tk.email = db'[tk.uid].email
             /\ \E i \in DOMAIN sessionHist'[tk.uid] : sessionHist'[tk.uid][i] = tk.sessionId
        /\ \A p \in Procs :
             /\ (req[p].pc = "gate" /\ req'[p] # req[p] /\ req[p].header.scheme = "Bearer"
                 /\ req[p].header.cred.signed /\ req[p].header.cred.tok \in tokens
                 /\ now < req[p].header.cred.tok.exp * 1000)
                => (req'[p].pc = "glookup" /\ req'[p].jwt = req[p].header.cred.tok)
             /\ (req[p].pc = "glookup" /\ req'[p] # req[p] /\ req[p].jwt \in tokens
                 /\ req[p].jwt.uid \in DOMAIN db /\ db[req[p].jwt.uid].isActive)
                => /\ req'[p].pc = "handler"
                   /\ req'[p].user = [id |-> req[p].jwt.uid, role |-> "SUPERADMIN",
                                      email |-> db[req[p].jwt.uid].email,
                                      sessionId |-> req[p].jwt.sessionId] ]_vars

(* A token of a login was presented later, still before its exp, and the gate handed the
   request over with the identity of that login *)
C36_Witness ==
    /\ req[1].pc = "handler" /\ req[1].kind = "logout"
    /\ req[1].jwt \in tokens
    /\ now > req[1].jwt.iat * 1000
    /\ now < req[1].jwt.exp * 1000
    /\ req[1].user.id = "sa1" /\ req[1].user.email = "a@x.com"
    /\ req[1].user.sessionId = req[1].jwt.sessionId

(* C37: a token minted by a login is never rejected as too old: whenever its iat is more
   than 24 hours back, jwt.verify already rejects it as expired. *)
C37_AgeCeilingNeverReason ==
    /\ \A tk \in tokens :
         tk.iat * 1000 < now - MaxTokenAgeSec * 1000
         => (tk.exp # 0 /\ now \div 1000 >= tk.exp + ClockToleranceSec)
    /\ \A p \in Procs :
         (req[p].pc = "done" /\ req[p].kind = "logout")
         => req[p].message # "Token is too old"

(* A token older than 24 hours was presented and rejected as expired *)
C37_Witness ==
    /\ tokens # {}
    /\ \A tk \in tokens : tk.iat * 1000 < now - MaxTokenAgeSec * 1000
    /\ req[1].pc = "done" /\ req[1].kind = "logout"
    /\ req[1].status = 401 /\ req[1].message = "Token expired"

----------------------------------------------------------------------------
(* C38: no step of a forgotPassword, verifyResetToken or resetPasswordWithToken request
   changes any account's loginAttempts or lockUntil, and a login that finds lockUntil in
   the future is denied with 423 whatever its password. *)
C38_ResetKeepsLockout ==
    [][ \A p \in Procs :
          /\ (req'[p] # req[p] /\ req'[p].kind \in {"forgot", "verify", "reset"})
             => \A a \in DOMAIN db :
                  /\ db'[a].loginAttempts = db[a].loginAttempts
                  /\ db'[a].lockUntil = db[a].lockUntil
          /\ (req[p].pc = "lookup" /\ req'[p] # req[p]
              /\ \E a \in DOMAIN db : /\ db[a].email = ToLowerCase(req[p].email)
                                      /\ db[a].lockUntil # Null /\ db[a].lockUntil > now)
             => (req'[p].pc = "done" /\ req'[p].status = 423 /\ db' = db) ]_vars

(* The account was locked, its password was then reset, and a login with the new
   password was denied as locked *)
C38_Witness ==
    /\ req[1].pc = "done" /\ req[1].kind = "login" /\ req[1].status = 423
    /\ req[1].path = "locked" /\ req[1].pwOk
    /\ consumed # {}
    /\ db["sa1"].password = HashPassword("Secr3t!x")
    /\ db["sa1"].loginAttempts = LockThreshold
    /\ db["sa1"].lockUntil > now

----------------------------------------------------------------------------
(* C39: the save of forgotPassword replaces the account's stored reset token and expiry
   by the new pair, after which no other issued token finds that account; verify and
   reset accept a token only if it is the one an account stores now, and answer any
   other token 400 invalid, expired or not. *)
C39_OneResetToken ==
    [][ \A p \in Procs :
          /\ (req[p].pc = "fsave" /\ req'[p] # req[p])
             => LET a == req[p].saId
                IN /\ db'[a].passwordResetToken = req[p].resetToken
                   /\ db'[a].passwordResetExpires = req[p].expiry
                   /\ \A t \in resetIssued' \ {req[p].resetToken} :
                        db'[a].passwordResetToken # t
          /\ (req[p].pc \in {"vlookup", "rlookup"} /\ req'[p] # req[p])
             => IF \E a \in DOMAIN db : db[a].passwordResetToken = req[p].resetToken
                THEN req'[p].path = "invalid"
                     => \A a \in DOMAIN db :
                          db[a].passwordResetToken = req[p].resetToken
                          => db[a].passwordResetExpires <= now
                ELSE /\ req'[p].pc = "done" /\ req'[p].status = 400
                     /\ req'[p].path = "invalid"
                     /\ db' = db ]_vars

(* Two reset mails were requested for the account; the first token, not yet expired and
   never used, was then presented and answered invalid while the second is stored *)
C39_Witness ==
    \E p \in Procs :
      /\ req[p].pc = "done" /\ req[p].kind \in {"verify", "reset"}
      /\ req[p].status = 400 /\ req[p].path = "invalid"
      /\ req[p].forToken \in resetIssued /\ ~req[p].usedToken
      /\ ticks = 0 /\ consumed = {}
      /\ db["sa1"].passwordResetToken \in resetIssued
      /\ db["sa1"].passwordResetToken > req[p].forToken

----------------------------------------------------------------------------
(* C40: the save of updateUserStatus changes nothing but the target user's accountStatus
   or warnings (no user gains or changes an isActive field, no account record changes),
   and the gate's lookup hands over every request with a USER token naming a stored user,
   whatever that user's accountStatus and warnings are. *)
C40_ModerationInvisibleToGate ==
    [][ \A p \in Procs :
          /\ (req[p].pc = "usave" /\ req'[p] # req[p])
             => /\ db' = db
                /\ DOMAIN users' = DOMAIN users
                /\ \A u \in DOMAIN users :
                     /\ DOMAIN users'[u] = DOMAIN users[u]
                     /\ "isActive" \notin DOMAIN users'[u]
                     /\ users'[u].email = users[u].email
                     /\ u # req[p].userId => users'[u] = users[u]
          /\ (req[p].pc = "glookup" /\ req'[p] # req[p] /\ req[p].jwt.role = "USER")
             => IF req[p].jwt.uid \in DOMAIN users
                THEN /\ req'[p].pc = "handler"
                     /\ req'[p].user.id = req[p].jwt.uid
                ELSE req'[p].status = 404 ]_vars

(* A user was banned and warned, and a request with that user's token then passed the gate *)
C40_Witness ==
    /\ users["u1"].accountStatus = "BANNED"
    /\ users["u1"].warnings = 1
    /\ req[1].pc = "handler" /\ req[1].kind = "status"
    /\ req[1].asRole = "USER" /\ req[1].asUid = "u1"
    /\ req[1].user.id = "u1"

====
